---- MODULE Spec2Model ----
(***************************************************************************)
(* Model of the task-chain solver of app.py: solve_and_submit_loop and the *)
(* helpers it calls (is_localhost_url, find_submit_url_from_page,          *)
(* extract_json_from_pre, compute_answer_from_page, submit_answer_json).   *)
(*                                                                         *)
(* Time.  The clock `now` counts whole ticks of 1/TicksPerSecond seconds   *)
(* elapsed since start_time (the floor of time.time() - start_time at      *)
(* that resolution).  The deadline and the 8-second margin are whole       *)
(* numbers of ticks, so `time.time() < deadline` and                       *)
(* `deadline - time.time() > 8` are decided exactly by the floor.  A       *)
(* blocking call advances the clock by a nondeterministic number of ticks; *)
(* time.sleep(0.5) and time.sleep(PAGE_RENDER_WAIT) (0.8 s) last at least  *)
(* one tick of half a second.                                              *)
(***************************************************************************)
EXTENDS Integers, Sequences, FiniteSets, TLC

VARIABLES
    pc,             \* position of the solver in solve_and_submit_loop
    start_url,      \* argument start_url
    current_url,    \* local current_url (None when the chain has ended)
    task_count,     \* local task_count
    retries_left,   \* local retries_left
    answered,       \* local answered
    now,            \* ticks elapsed since start_time
    browser,        \* "none" | "running" | "closed": the playwright browser
    open_pages,     \* pages created by context.new_page() and not yet closed
    doc,            \* the document the open page shows (NoDoc when none)
    submit_url,     \* local submit_url
    submit_body,    \* local submit_body (url and answer fields)
    resp_json,      \* local resp_json
    candidate,      \* local candidate of the fallback scan
    body_reads,     \* history: what the reads of the body text by the resolver
                    \* (line 60) and the fallback scan (line 226) gave in this attempt
    exc,            \* exception being handled by the per-attempt except clauses
    outcome,        \* history: how the most recent finished attempt ended
    start_retries,  \* history: retries_left when the most recent attempt began
    rendered_url,   \* history: the URL most recently handed to page.goto
    attempts        \* history: attempts begun in the current task

vars == <<pc, start_url, current_url, task_count, retries_left, answered, now,
          browser, open_pages, doc, submit_url, submit_body, resp_json,
          candidate, body_reads, exc, outcome, start_retries, rendered_url,
          attempts>>

-----------------------------------------------------------------------------
(* Configuration and bounds *)

\* PER_QUESTION_RETRIES, default of the environment variable
PER_QUESTION_RETRIES == 2

\* SOLVE_DEADLINE_SECONDS, an environment setting (default 170); the model
\* runs the solver under a short deadline
SOLVE_DEADLINE_SECONDS == 11

\* the safety margin of the retry decisions, in seconds
SAFETY_MARGIN_SECONDS == 8

\* resolution of the clock: ticks per second
TicksPerSecond == 2

\* longest duration of one blocking call, in ticks
MaxDur == 3

\* most tasks started in one run
MaxTasks == 2

deadline == SOLVE_DEADLINE_SECONDS * TicksPerSecond

SafetyMargin == SAFETY_MARGIN_SECONDS * TicksPerSecond

\* duration of a blocking call that may return at once
Dur == {0, 1, MaxDur}

\* duration of a blocking call that contains a sleep of at least one tick
SleepDur == {1, MaxDur}

-----------------------------------------------------------------------------
(* Values *)

None == "None"

Q1 == "http://x/q1"

Q2 == "http://x/q2"

LoopbackQuiz == "http://127.0.0.1:9999/quiz"

\* URLs a grader response or a page text can carry
NextUrls == {Q1, Q2, LoopbackQuiz}

\* start URLs handed to solve_and_submit_loop
StartUrls == {Q1, LoopbackQuiz, "http://localhost/quiz", "http://[::1]/quiz",
              "http://printer.local/quiz", "http://local/quiz", ""}

SubmitPage == "http://x/submit"

\* urlparse(url).hostname, as its dot-separated labels (already lower-cased
\* by urlparse; "" when the URL has no host)
Hostname(url) ==
    CASE url = LoopbackQuiz -> <<"127", "0", "0", "1">>
      [] url = "http://localhost/quiz" -> <<"localhost">>
      [] url = "http://[::1]/quiz" -> <<"::1">>
      [] url = "http://printer.local/quiz" -> <<"printer", "local">>
      [] url = "http://local/quiz" -> <<"local">>
      [] url \in {Q1, Q2, SubmitPage} -> <<"x">>
      [] OTHER -> <<>>

\* is_localhost_url without the .local rule
is_localhost_url_no_local(url) ==
    Hostname(url) \in {<<"localhost">>, <<"127", "0", "0", "1">>, <<"::1">>}

is_localhost_url(url) ==
    LET hostname == Hostname(url) IN
    \/ hostname \in {<<"localhost">>, <<"127", "0", "0", "1">>, <<"::1">>}
    \/ Len(hostname) >= 2 /\ hostname[Len(hostname)] = "local"

\* Python truthiness of a URL-valued local
Truthy(u) == u \notin {None, ""}

-----------------------------------------------------------------------------
(* Rendered documents.  A document has the text of its first <pre>         *)
(* element, the href attributes of its a[href] elements in document order  *)
(* and its visible body text, a sequence of whitespace-separated tokens.   *)

\* JSON scalars, tagged with their Python type
Absent == [ty |-> "absent", v |-> ""]

JsonNull == [ty |-> "null", v |-> ""]

JInt(s) == [ty |-> "int", v |-> s]

JFloat(s) == [ty |-> "float", v |-> s]

JStr(s) == [ty |-> "str", v |-> s]

\* JSON documents: a dict with optional "answer" and "url" members, a
\* non-dict value, and Python None
JDict(a, u) == [t |-> "dict", answer |-> a, url |-> u]

JList == [t |-> "list", answer |-> Absent, url |-> "<absent>"]

JNone == [t |-> "none", answer |-> Absent, url |-> "<absent>"]

PdfData == "http://x/data.pdf"

\* text of the <pre> element: enc says how val is written down
NoPre == [enc |-> "nopre", val |-> JNone]

PreJson(j) == [enc |-> "json", val |-> j]

PreBase64(j) == [enc |-> "base64", val |-> j]

PreGarbage == [enc |-> "garbage", val |-> JNone]

NoDoc == [pre |-> NoPre, anchors |-> <<>>, body |-> <<>>]

\* tokens matched by https?://[^\s'"<>]+ (case-sensitive)
UrlTokens == NextUrls \cup {SubmitPage}

\* tokens matched by https?://[^\s'"<>]*submit[^\s'"<>]* under re.IGNORECASE
SubmitUrlTokens == {SubmitPage, "HTTP://X/SUBMIT"}

\* the leftmost token of text that lies in S, or None: re.search over the text
RECURSIVE FirstToken(_, _)
FirstToken(text, S) ==
    IF text = <<>> THEN None
    ELSE IF Head(text) \in S THEN Head(text)
    ELSE FirstToken(Tail(text), S)

\* "submit" in href.lower()
HrefHasSubmit(href) == href \in {"/submit", "/SUBMIT"}

\* href.lower().endswith(".pdf")
HrefIsPdf(href) == href \in {"report.pdf", "REPORT.PDF"}

\* urljoin(base_url, href) for the hrefs of the model
UrlJoin(base, href) ==
    IF Hostname(base) = <<"x">>
    THEN "http://x" \o (IF href \in {"/submit", "/SUBMIT", "/q2"} THEN href ELSE "/" \o href)
    ELSE "http://127.0.0.1:9999" \o (IF href \in {"/submit", "/SUBMIT", "/q2"} THEN href ELSE "/" \o href)

\* the first href of anchors that contains "submit", or None
RECURSIVE FirstSubmitHref(_)
FirstSubmitHref(anchors) ==
    IF anchors = <<>> THEN None
    ELSE IF Head(anchors) # "" /\ HrefHasSubmit(Head(anchors)) THEN Head(anchors)
    ELSE FirstSubmitHref(Tail(anchors))

\* find_submit_url_from_page without its last rule (any URL in the text)
find_submit_url_no_any_url(d, base_url, read_ok) ==
    LET href == FirstSubmitHref(d.anchors)
        text == IF read_ok THEN d.body ELSE <<>>
    IN  IF href # None THEN UrlJoin(base_url, href)
        ELSE FirstToken(text, SubmitUrlTokens)

\* find_submit_url_from_page(page, base_url); read_ok is FALSE when
\* page.inner_text("body") raises, which leaves text = ""
find_submit_url_from_page(d, base_url, read_ok) ==
    LET href == FirstSubmitHref(d.anchors)
        text == IF read_ok THEN d.body ELSE <<>>
        m    == FirstToken(text, SubmitUrlTokens)
        m2   == FirstToken(text, UrlTokens)
    IN  IF href # None THEN UrlJoin(base_url, href)
        ELSE IF m # None THEN m
        ELSE IF m2 # None THEN m2
        ELSE None

\* extract_json_from_pre(page): json.loads of the text, else of its base64
\* decoding, else None
extract_json_from_pre(d) ==
    CASE d.pre.enc = "json" -> d.pre.val
      [] d.pre.enc = "base64" -> d.pre.val
      [] OTHER -> JNone

\* the first match of ([-+]?\d+\.\d+|[-+]?\d+) inside one token, converted
\* by int() or float(); Absent when the token holds no digit
NumberIn(tok) ==
    CASE tok = "17" -> JInt("17")
      [] tok = "3.5" -> JFloat("3.5")
      [] tok = Q1 -> JInt("1")
      [] tok = Q2 -> JInt("2")
      [] tok = LoopbackQuiz -> JFloat("127.0")
      [] OTHER -> Absent

\* the first numeric match in the text, scanning left to right
RECURSIVE FirstNumber(_)
FirstNumber(text) ==
    IF text = <<>> THEN Absent
    ELSE IF NumberIn(Head(text)) # Absent THEN NumberIn(Head(text))
    ELSE FirstNumber(Tail(text))

\* results of download_file_bytes followed by sum_values_on_pdf_page2
PdfResults == {"raise", "none", "sum"}

PdfSum == JFloat("12.5")

\* the PDF loop over the anchors of compute_answer_from_page: the first
\* .pdf link whose handler yields a value
RECURSIVE FirstPdfAnswer(_, _)
FirstPdfAnswer(anchors, pdf) ==
    IF anchors = <<>> THEN Absent
    ELSE IF Head(anchors) # "" /\ HrefIsPdf(Head(anchors)) /\ pdf = "sum" THEN PdfSum
    ELSE FirstPdfAnswer(Tail(anchors), pdf)

\* compute_answer_from_page with the linked-file strategy tried first
compute_answer_linked_first(d, parsed_json, pdf, read_ok) ==
    LET body_text == IF read_ok THEN d.body ELSE <<>>
        linked    == FirstPdfAnswer(d.anchors, pdf)
        textual   == IF FirstNumber(body_text) # Absent THEN FirstNumber(body_text)
                     ELSE JStr("no-answer-found")
    IN  IF linked # Absent THEN linked
        ELSE IF parsed_json.t = "dict" /\ parsed_json.answer # Absent
        THEN parsed_json.answer
        ELSE textual

\* compute_answer_from_page(page, parsed_json).  pdf is what the PDF handler
\* does on this page's files; read_ok is FALSE when the bounded body read
\* raises (body_text = "").
compute_answer_from_page(d, parsed_json, pdf, read_ok) ==
    LET body_text == IF read_ok THEN d.body ELSE <<>>
        linked    == FirstPdfAnswer(d.anchors, pdf)
        textual   == IF FirstNumber(body_text) # Absent THEN FirstNumber(body_text)
                     ELSE JStr("no-answer-found")
        rest      == IF linked # Absent THEN linked ELSE textual
    IN  IF parsed_json.t = "dict"
        THEN IF parsed_json.answer # Absent THEN parsed_json.answer
             ELSE IF parsed_json.url = PdfData /\ pdf = "sum" THEN PdfSum
             ELSE rest
        ELSE rest

\* documents the renderer can produce
Docs == {
    [pre |-> PreJson(JDict(JInt("42"), "<absent>")), anchors |-> <<"/q2", "/submit">>, body |-> <<"items">>],
    [pre |-> NoPre, anchors |-> <<>>, body |-> <<"The", "17", "items">>],
    [pre |-> NoPre, anchors |-> <<"/q2">>, body |-> <<"see", Q2>>],
    [pre |-> NoPre, anchors |-> <<>>, body |-> <<"go", Q1>>],
    [pre |-> PreBase64(JDict(Absent, PdfData)), anchors |-> <<"report.pdf">>, body |-> <<"3.5", "HTTP://X/SUBMIT">>] }

\* body texts a later read of the same page can return
Bodies == {d.body : d \in Docs}

-----------------------------------------------------------------------------
(* Grader responses, as submit_answer_json returns them *)

\* resp_json: a dict with its "correct" member ("True", "False", "None" for
\* null or absent, "other" for any other value) and its "url" member (None
\* for null or absent), or a JSON value that is no dict
RespDict(c, u) == [t |-> "dict", correct |-> c, url |-> u]

RespList == [t |-> "list", correct |-> "None", url |-> None]

NoResp == [t |-> "none", correct |-> "None", url |-> None]

\* {"non_json_response": resp.text} is RespDict("None", None)
Responses ==
    {RespDict(c, u) : c \in {"True", "False", "None", "other"},
                      u \in {None, ""} \cup NextUrls} \cup {RespList}

\* correct = resp_json.get("correct") when resp_json is a dict, else None
CorrectOf(resp) == IF resp.t = "dict" THEN resp.correct ELSE "None"

\* next_url = resp_json.get("url") when resp_json is a dict, else None
NextUrlOf(resp) == IF resp.t = "dict" THEN resp.url ELSE None

NoBody == [url |-> None, answer |-> Absent]

-----------------------------------------------------------------------------
(* Conditions and updates of solve_and_submit_loop *)

\* the outer loop test without the deadline
OuterLoopCondNoDeadline(u, t) == Truthy(u)

\* the outer loop test with the loopback guard applied to every task
OuterLoopCondGuarded(u, t) == Truthy(u) /\ t < deadline /\ ~is_localhost_url(u)

\* while current_url and time.time() < deadline
OuterLoopCond(u, t) == Truthy(u) /\ t < deadline

\* the inner loop condition with the budget test off by one
InnerLoopCondLoose(t, r, a) == t < deadline /\ r >= -1 /\ ~a

\* while time.time() < deadline and retries_left >= 0 and not answered
InnerLoopCond(t, r, a) == t < deadline /\ r >= 0 /\ ~a

\* the retry test with the time margin dropped
RetryAllowedNoMargin(r, remaining) == r > 0

\* the retry test with "or" for "and"
RetryAllowedEither(r, remaining) == r > 0 \/ remaining > SafetyMargin

\* the retry test that gives up one budget unit early
RetryAllowedEarly(r, remaining) == r > 1 /\ remaining > SafetyMargin

\* retries_left > 0 and remaining_time > 8
RetryAllowed(r, remaining) == r > 0 /\ remaining > SafetyMargin

\* the fallback decision without the self-loop test
FallbackNextNoCheck(cand, cur) == cand

\* the new current_url of the fallback branch: None when the candidate is
\* missing or equals current_url
FallbackNext(cand, cur) ==
    IF cand = None THEN None
    ELSE IF cand = cur THEN None
    ELSE cand

\* the advance that refuses a next URL equal to current_url
GraderNextNoSelfLoop(next_url, cur) ==
    IF Truthy(next_url) /\ next_url # cur THEN next_url ELSE None

\* the new current_url of the advancing and finishing branches of lines
\* 263-304: next_url when it is truthy, else None
GraderNext(next_url, cur) == IF Truthy(next_url) THEN next_url ELSE None

\* the task start that keeps the budget of the previous task
TaskStartRetriesKept(r) == r

\* retries_left = PER_QUESTION_RETRIES at the start of a task
TaskStartRetries(r) == PER_QUESTION_RETRIES

\* what one call of page.inner_text("body") gave: the text, or an exception
BodyRead(ok, text) == [ok |-> ok, text |-> IF ok THEN text ELSE <<>>]

\* page.inner_text("body")[:3000], on token sequences
FALLBACK_SCAN_CHARS == 3000

Leading(text) ==
    SubSeq(text, 1, IF Len(text) < FALLBACK_SCAN_CHARS THEN Len(text) ELSE FALLBACK_SCAN_CHARS)

\* the per-attempt locals are dead once the attempt is over: every later
\* read of them follows an assignment made in the same attempt
ClearLocals ==
    /\ doc' = NoDoc
    /\ submit_url' = None
    /\ submit_body' = NoBody
    /\ resp_json' = NoResp
    /\ candidate' = None
    /\ body_reads' = <<>>

KeepLocals ==
    UNCHANGED <<doc, submit_url, submit_body, resp_json, candidate, body_reads>>

KeepHistory == UNCHANGED <<outcome, start_retries, rendered_url, attempts>>

-----------------------------------------------------------------------------
(* The state machine *)

Init ==
    /\ pc = "start"
    /\ start_url \in StartUrls
    /\ current_url = start_url
    /\ task_count = 0
    /\ retries_left = PER_QUESTION_RETRIES
    /\ answered = FALSE
    /\ now = 0
    /\ browser = "none"
    /\ open_pages = 0
    /\ doc = NoDoc
    /\ submit_url = None
    /\ submit_body = NoBody
    /\ resp_json = NoResp
    /\ candidate = None
    /\ body_reads = <<>>
    /\ exc = None
    /\ outcome = "none"
    /\ start_retries = PER_QUESTION_RETRIES
    /\ rendered_url = None
    /\ attempts = 0

\* lines 192-194: the loopback guard; `return` leaves before the try block
CheckLocalhost ==
    /\ pc = "start"
    /\ pc' = IF is_localhost_url(start_url) THEN "aborted" ELSE "launch"
    /\ UNCHANGED <<start_url, current_url, task_count, retries_left, answered,
                   now, browser, open_pages, exc>>
    /\ KeepLocals /\ KeepHistory

\* lines 197-199: sync_playwright(), chromium.launch, new_context
LaunchOk ==
    /\ pc = "launch"
    /\ \E d \in Dur : now' = now + d
    /\ browser' = "running"
    /\ pc' = "outer"
    /\ UNCHANGED <<start_url, current_url, task_count, retries_left, answered,
                   open_pages, exc>>
    /\ KeepLocals /\ KeepHistory

\* lines 197-199 raising: caught by `except Exception` of line 318
LaunchFails ==
    /\ pc = "launch"
    /\ \E d \in Dur : now' = now + d
    /\ exc' = "Exception"
    /\ pc' = "crashed"
    /\ UNCHANGED <<start_url, current_url, task_count, retries_left, answered,
                   browser, open_pages>>
    /\ KeepLocals /\ KeepHistory

\* lines 200-204: the outer loop test and the start of a task
OuterCheck ==
    /\ pc = "outer"
    /\ IF OuterLoopCond(current_url, now)
       THEN /\ task_count < MaxTasks
            /\ task_count' = task_count + 1
            /\ retries_left' = TaskStartRetries(retries_left)
            /\ answered' = FALSE
            /\ attempts' = 0
            /\ pc' = "inner"
       ELSE /\ pc' = "browser_close"
            /\ UNCHANGED <<task_count, retries_left, answered, attempts>>
    /\ UNCHANGED <<start_url, current_url, now, browser, open_pages, exc,
                   outcome, start_retries, rendered_url>>
    /\ KeepLocals

\* line 206: the inner loop test
InnerCheck ==
    /\ pc = "inner"
    /\ IF InnerLoopCond(now, retries_left, answered)
       THEN /\ pc' = "new_page"
            /\ attempts' = attempts + 1
            /\ start_retries' = retries_left
       ELSE /\ pc' = "outer"
            /\ UNCHANGED <<attempts, start_retries>>
    /\ UNCHANGED <<start_url, current_url, task_count, retries_left, answered,
                   now, browser, open_pages, exc, outcome, rendered_url>>
    /\ KeepLocals

\* lines 208-209: context.new_page()
NewPageOk ==
    /\ pc = "new_page"
    /\ open_pages' = open_pages + 1
    /\ pc' = "goto"
    /\ UNCHANGED <<start_url, current_url, task_count, retries_left, answered,
                   now, browser, exc>>
    /\ KeepLocals /\ KeepHistory

\* line 208 raising: no page was created
NewPageFails ==
    /\ pc = "new_page"
    /\ exc' = "Exception"
    /\ pc' = "except"
    /\ UNCHANGED <<start_url, current_url, task_count, retries_left, answered,
                   now, browser, open_pages>>
    /\ KeepLocals /\ KeepHistory

\* lines 210-211: page.goto(current_url) and the settle sleep.  No clock is
\* read between here and the POST, so d also covers the time that the
\* extraction of lines 213-226 takes.
GotoOk ==
    /\ pc = "goto"
    /\ rendered_url' = current_url
    /\ \E d \in SleepDur : now' = now + d
    /\ \E page \in Docs : doc' = page
    /\ pc' = "extract"
    /\ UNCHANGED <<start_url, current_url, task_count, retries_left, answered,
                   browser, open_pages, exc, submit_url, submit_body, resp_json,
                   candidate, body_reads, outcome, start_retries, attempts>>

\* line 210 raising PWTimeoutError or another playwright error
GotoFails ==
    /\ pc = "goto"
    /\ rendered_url' = current_url
    /\ \E d \in Dur : now' = now + d
    /\ \E e \in {"PWTimeoutError", "Exception"} : exc' = e
    /\ pc' = "except"
    /\ UNCHANGED <<start_url, current_url, task_count, retries_left, answered,
                   browser, open_pages, outcome, start_retries, attempts>>
    /\ KeepLocals

\* lines 213-222: extraction, submit-target resolution, answer, payload
Extract ==
    /\ pc = "extract"
    /\ \E read1 \in BOOLEAN, read2 \in BOOLEAN, pdf \in PdfResults :
          /\ submit_url' = find_submit_url_from_page(doc, current_url, read1)
          /\ submit_body' =
                [url |-> current_url,
                 answer |-> compute_answer_from_page(doc, extract_json_from_pre(doc),
                                                     pdf, read2)]
          /\ body_reads' = IF FirstSubmitHref(doc.anchors) = None
                           THEN <<BodyRead(read1, doc.body)>>
                           ELSE <<>>
    /\ pc' = IF Truthy(submit_url') THEN "submit" ELSE "no_submit"
    /\ UNCHANGED <<start_url, current_url, task_count, retries_left, answered,
                   now, browser, open_pages, exc, doc, resp_json, candidate>>
    /\ KeepHistory

\* lines 213-215 raising (query_selector, inner_text of the <pre> element)
ExtractFails ==
    /\ pc = "extract"
    /\ \E e \in {"PWTimeoutError", "Exception"} : exc' = e
    /\ pc' = "except"
    /\ UNCHANGED <<start_url, current_url, task_count, retries_left, answered,
                   now, browser, open_pages>>
    /\ KeepLocals /\ KeepHistory

\* lines 224-243 up to the assignments: the fallback scan of the body text,
\* which may have changed since the resolver read it
NoSubmitTarget ==
    /\ pc = "no_submit"
    /\ \E body \in Bodies \cup {<<>>, doc.body} :
          /\ doc' = [doc EXCEPT !.body = body]
          /\ candidate' = FirstToken(Leading(body), UrlTokens)
          /\ body_reads' = Append(body_reads, BodyRead(TRUE, body))
    /\ current_url' = FallbackNext(candidate', current_url)
    /\ answered' = TRUE
    /\ outcome' = IF candidate' = None THEN "end_nocandidate"
                  ELSE IF current_url' = None THEN "end_selfloop"
                  ELSE "advance_fallback"
    /\ pc' = "close_break"
    /\ UNCHANGED <<start_url, task_count, retries_left, now, browser, open_pages, exc,
                   submit_url, submit_body, resp_json, start_retries,
                   rendered_url, attempts>>

\* line 226 raising
NoSubmitTargetFails ==
    /\ pc = "no_submit"
    /\ \E e \in {"PWTimeoutError", "Exception"} : exc' = e
    /\ pc' = "except"
    /\ UNCHANGED <<start_url, current_url, task_count, retries_left, answered,
                   now, browser, open_pages>>
    /\ KeepLocals /\ KeepHistory

\* line 248 returning and lines 256-304 up to the assignments:
\* submit_answer_json(submit_url, submit_body) answers r after d ticks and
\* the solver decides on it; the page, the payload and the submit target are
\* not read again in this attempt
SubmitOk ==
    /\ pc = "submit"
    /\ \E d \in Dur, r \in Responses :
          /\ now' = now + d
          /\ resp_json' = r
          /\ LET correct  == CorrectOf(r)
                 next_url == NextUrlOf(r)
                 retry    == RetryAllowed(retries_left, deadline - now')
             IN  IF correct = "True"
                 THEN /\ current_url' = GraderNext(next_url, current_url)
                      /\ outcome' = IF Truthy(next_url) THEN "advance_correct"
                                    ELSE "done_correct"
                      /\ answered' = TRUE
                      /\ pc' = "close_break"
                      /\ UNCHANGED retries_left
                 ELSE IF retry
                 THEN /\ retries_left' = retries_left - 1
                      /\ outcome' = IF Truthy(next_url) THEN "retry_next"
                                    ELSE "retry_nonext"
                      /\ pc' = "close_retry"
                      /\ UNCHANGED <<current_url, answered>>
                 ELSE /\ current_url' = GraderNext(next_url, current_url)
                      /\ outcome' = IF Truthy(next_url) THEN "advance_unconfirmed"
                                    ELSE "end_unconfirmed"
                      /\ answered' = TRUE
                      /\ pc' = "close_break"
                      /\ UNCHANGED retries_left
    /\ doc' = NoDoc
    /\ submit_url' = None
    /\ submit_body' = NoBody
    /\ body_reads' = <<>>
    /\ UNCHANGED <<start_url, task_count, browser, open_pages, exc, candidate,
                   start_retries, rendered_url, attempts>>

\* lines 249-251: submit_answer_json raising RequestException
SubmitFails ==
    /\ pc = "submit"
    /\ \E d \in Dur : now' = now + d
    /\ retries_left' = retries_left - 1
    /\ outcome' = "submit_fail"
    /\ pc' = "close_retry"
    /\ doc' = NoDoc
    /\ submit_url' = None
    /\ submit_body' = NoBody
    /\ body_reads' = <<>>
    /\ UNCHANGED <<start_url, current_url, task_count, answered, browser,
                   open_pages, exc, start_retries, rendered_url, attempts,
                   resp_json, candidate>>

\* a retry that posts again without rendering again
CloseAndResubmit ==
    /\ pc = "close_retry"
    /\ open_pages' = open_pages - 1
    /\ \E d \in SleepDur : now' = now + d
    /\ pc' = "submit"
    /\ UNCHANGED <<start_url, current_url, task_count, retries_left, answered,
                   browser, exc>>
    /\ KeepLocals /\ KeepHistory

\* page.close(); time.sleep(0.5); continue (lines 252-254, 283-285, 296-298).
\* page.close() and time.sleep are taken to return normally.
CloseAndRetry ==
    /\ pc = "close_retry"
    /\ open_pages' = open_pages - 1
    /\ \E d \in SleepDur : now' = now + d
    /\ pc' = "inner"
    /\ ClearLocals
    /\ UNCHANGED <<start_url, current_url, task_count, retries_left, answered,
                   browser, exc>>
    /\ KeepHistory

\* page.close(); break (lines 236-237, 242-243, 268-269, 274-275, 290-291,
\* 303-304)
CloseAndBreak ==
    /\ pc = "close_break"
    /\ open_pages' = open_pages - 1
    /\ \E d \in {0, 1} : now' = now + d
    /\ pc' = "outer"
    /\ ClearLocals
    /\ UNCHANGED <<start_url, current_url, task_count, retries_left, answered,
                   browser, exc>>
    /\ KeepHistory

\* lines 306-315: both except clauses: retries_left -= 1; sleep; continue.
\* The page of the attempt is not closed.
ExceptHandler ==
    /\ pc = "except"
    /\ retries_left' = retries_left - 1
    /\ outcome' = "render_fault"
    /\ exc' = None
    /\ \E d \in SleepDur : now' = now + d
    /\ pc' = "inner"
    /\ ClearLocals
    /\ UNCHANGED <<start_url, current_url, task_count, answered, browser,
                   open_pages, start_retries, rendered_url, attempts>>

\* line 317: browser.close() closes every page still open
BrowserClose ==
    /\ pc = "browser_close"
    /\ browser' = "closed"
    /\ open_pages' = 0
    /\ pc' = "summary"
    /\ UNCHANGED <<start_url, current_url, task_count, retries_left, answered,
                   now, exc>>
    /\ KeepLocals /\ KeepHistory

\* line 317 raising: caught by `except Exception` of line 318; leaving the
\* `with` block stops playwright and with it the browser
BrowserCloseFails ==
    /\ pc = "browser_close"
    /\ browser' = "closed"
    /\ open_pages' = 0
    /\ exc' = "Exception"
    /\ pc' = "crashed"
    /\ UNCHANGED <<start_url, current_url, task_count, retries_left, answered, now>>
    /\ KeepLocals /\ KeepHistory

\* the crash handler that lets the exception escape instead of logging it
LogCrashReraise ==
    /\ pc = "crashed"
    /\ pc' = "raised"
    /\ UNCHANGED <<start_url, current_url, task_count, retries_left, answered,
                   now, browser, open_pages, exc>>
    /\ KeepLocals /\ KeepHistory

\* lines 318-319: the crash is logged, not re-raised
LogCrash ==
    /\ pc = "crashed"
    /\ exc' = None
    /\ pc' = "summary"
    /\ UNCHANGED <<start_url, current_url, task_count, retries_left, answered,
                   now, browser, open_pages>>
    /\ KeepLocals /\ KeepHistory

\* lines 320-322: the summary line
Summary ==
    /\ pc = "summary"
    /\ pc' = "finished"
    /\ UNCHANGED <<start_url, current_url, task_count, retries_left, answered,
                   now, browser, open_pages, exc>>
    /\ KeepLocals /\ KeepHistory

Next ==
    \/ CheckLocalhost
    \/ LaunchOk
    \/ LaunchFails
    \/ OuterCheck
    \/ InnerCheck
    \/ NewPageOk
    \/ NewPageFails
    \/ GotoOk
    \/ GotoFails
    \/ Extract
    \/ ExtractFails
    \/ NoSubmitTarget
    \/ NoSubmitTargetFails
    \/ SubmitOk
    \/ SubmitFails
    \/ CloseAndRetry
    \/ CloseAndBreak
    \/ ExceptHandler
    \/ BrowserClose
    \/ BrowserCloseFails
    \/ LogCrash
    \/ Summary

Spec == Init /\ [][Next]_vars

-----------------------------------------------------------------------------
(* The solver without the bound on the number of tasks.  task_count is only *)
(* logged (lines 202, 322): here it stops counting at MaxTasks, and every   *)
(* run goes on until the code itself ends it.  The solver is one thread and *)
(* every blocking call returns, so a step that is possible is taken.        *)

\* lines 200-204, for any number of tasks
OuterCheckLive ==
    /\ pc = "outer"
    /\ IF OuterLoopCond(current_url, now)
       THEN /\ task_count' = IF task_count < MaxTasks THEN task_count + 1
                             ELSE task_count
            /\ retries_left' = TaskStartRetries(retries_left)
            /\ answered' = FALSE
            /\ attempts' = 0
            /\ pc' = "inner"
       ELSE /\ pc' = "browser_close"
            /\ UNCHANGED <<task_count, retries_left, answered, attempts>>
    /\ UNCHANGED <<start_url, current_url, now, browser, open_pages, exc,
                   outcome, start_retries, rendered_url>>
    /\ KeepLocals

LiveNext ==
    \/ CheckLocalhost
    \/ LaunchOk
    \/ LaunchFails
    \/ OuterCheckLive
    \/ InnerCheck
    \/ NewPageOk
    \/ NewPageFails
    \/ GotoOk
    \/ GotoFails
    \/ Extract
    \/ ExtractFails
    \/ NoSubmitTarget
    \/ NoSubmitTargetFails
    \/ SubmitOk
    \/ SubmitFails
    \/ CloseAndRetry
    \/ CloseAndBreak
    \/ ExceptHandler
    \/ BrowserClose
    \/ BrowserCloseFails
    \/ LogCrash
    \/ Summary

LiveSpec == Init /\ [][LiveNext]_vars /\ WF_vars(LiveNext)

-----------------------------------------------------------------------------
(* The extraction step on its own: the first attempt on Q1 has rendered a   *)
(* document, any of ExtractorDocs, and lines 213-243 run on it.             *)

ExtractorPres ==
    {NoPre, PreGarbage,
     PreJson(JDict(JInt("42"), "<absent>")),
     PreJson(JDict(JsonNull, "<absent>")),
     PreJson(JDict(JStr("blue"), PdfData)),
     PreJson(JDict(Absent, "<absent>")),
     PreBase64(JDict(Absent, PdfData)),
     PreJson(JList)}

ExtractorAnchors ==
    {<<>>, <<"/submit">>, <<"report.pdf">>, <<"/q2", "report.pdf", "/SUBMIT">>}

ExtractorBodies ==
    {<<>>, <<"items">>, <<"The", "17", "items">>, <<"go", Q1>>,
     <<"3.5", "HTTP://X/SUBMIT">>, <<"items", Q2, SubmitPage>>}

ExtractorDocs ==
    {[pre |-> p, anchors |-> a, body |-> b] :
        p \in ExtractorPres, a \in ExtractorAnchors, b \in ExtractorBodies}

ExtractorInit ==
    /\ pc = "extract"
    /\ start_url = Q1
    /\ current_url = Q1
    /\ task_count = 1
    /\ retries_left = PER_QUESTION_RETRIES
    /\ answered = FALSE
    /\ now = 1
    /\ browser = "running"
    /\ open_pages = 1
    /\ doc \in ExtractorDocs
    /\ submit_url = None
    /\ submit_body = NoBody
    /\ resp_json = NoResp
    /\ candidate = None
    /\ body_reads = <<>>
    /\ exc = None
    /\ outcome = "none"
    /\ start_retries = PER_QUESTION_RETRIES
    /\ rendered_url = Q1
    /\ attempts = 1

ExtractorNext ==
    \/ Extract
    \/ ExtractFails
    \/ NoSubmitTarget
    \/ NoSubmitTargetFails

ExtractorSpec == ExtractorInit /\ [][ExtractorNext]_vars

TypeOK ==
    /\ retries_left \in -2..PER_QUESTION_RETRIES
    /\ open_pages \in Nat
    /\ now \in Nat

-----------------------------------------------------------------------------
(* Properties *)

\* positions from which no attempt is in progress and none can start again
\* once current_url is None
ChainOverPcs ==
    {"close_break", "outer", "browser_close", "crashed", "summary", "finished"}

\* the two positions at which an attempt that reached a decision closes its
\* page; `now` is still the clock value the decision read
ClosePcs == {"close_retry", "close_break"}

\* a grader response was received in this attempt and is not confirmed correct
Unconfirmed == resp_json # NoResp /\ CorrectOf(resp_json) # "True"

\* C1: no page render and no submission is initiated at a moment when
\* now >= deadline.
C1_NoInitiationPastDeadline ==
    pc \in {"goto", "submit"} => now < deadline

\* C2: when a recoverable failure leaves no retry (budget or deadline), the
\* chain ends: no task starts rendering after an attempt that ended in a
\* recoverable failure.
C2_ChainEndsWhenRetriesExhausted ==
    ~(pc = "goto" /\ attempts = 1 /\ outcome \in {"render_fault", "submit_fail"})

\* C3: at most one page is open at any time, and the page of an attempt is
\* closed when the attempt is over, on every exit path.
C3_OnePageClosedOnEveryPath ==
    /\ open_pages <= 1
    /\ pc \in {"inner", "outer", "browser_close"} => open_pages = 0

\* units of retry budget an attempt with this outcome consumes
RetryCost(o) ==
    IF o \in {"render_fault", "submit_fail", "retry_next", "retry_nonext"} THEN 1 ELSE 0

LocalStartUrls == {LoopbackQuiz, "http://localhost/quiz", "http://[::1]/quiz",
                   "http://printer.local/quiz"}

\* C5: with a start URL on localhost, 127.0.0.1, ::1 or a .local host the
\* solver only ever aborts: the renderer is never started, no page is
\* opened, nothing is rendered and nothing is submitted.
C5_LoopbackRejected ==
    start_url \in LocalStartUrls =>
        /\ pc \in {"start", "aborted"}
        /\ browser = "none"
        /\ open_pages = 0
        /\ rendered_url = None
        /\ resp_json = NoResp
        /\ task_count = 0

C5_Witness == pc = "aborted" /\ start_url = "http://printer.local/quiz"

\* C6, states: a confirmed answer with a next URL makes current_url that
\* URL, and the render that follows is the first of a task whose budget is
\* PER_QUESTION_RETRIES.
C6_AdvanceState ==
    /\ (pc = "close_break" /\ resp_json # NoResp /\ CorrectOf(resp_json) = "True"
            /\ Truthy(NextUrlOf(resp_json)))
          => (current_url = NextUrlOf(resp_json) /\ answered /\ outcome = "advance_correct")
    /\ (pc \in {"inner", "new_page", "goto"} /\ outcome = "advance_correct")
          => /\ retries_left = PER_QUESTION_RETRIES
             /\ attempts = (IF pc = "inner" THEN 0 ELSE 1)
             /\ Truthy(current_url)

\* C6, steps: from the decision up to the call of page.goto nothing changes
\* current_url, and page.goto renders current_url.
C6_AdvanceStep ==
    /\ pc \in {"close_break", "outer", "inner", "new_page", "goto"}
          => current_url' = current_url
    /\ (pc = "goto" /\ pc' = "extract") => rendered_url' = current_url

\* C6: when the grader confirms the answer and gives a next URL, current_url
\* becomes that URL and the next attempt renders it with the retry budget
\* equal to PER_QUESTION_RETRIES, whatever the previous task consumed.
C6_AdvanceOnCorrect == []C6_AdvanceState /\ [][C6_AdvanceStep]_vars

C6_Witness ==
    pc = "inner" /\ outcome = "advance_correct" /\ start_retries = 0
        /\ retries_left = PER_QUESTION_RETRIES /\ current_url # rendered_url

\* C7: an unconfirmed answer with a next URL, retries_left > 0 and more than
\* 8 seconds left is retried: current_url is unchanged, one retry unit is
\* consumed, and the next render is of the same URL.
C7_RetrySameUrl ==
    /\ (pc \in ClosePcs /\ Unconfirmed /\ Truthy(NextUrlOf(resp_json))
            /\ start_retries > 0 /\ deadline - now > SAFETY_MARGIN_SECONDS * TicksPerSecond)
          => /\ pc = "close_retry"
             /\ outcome = "retry_next"
             /\ current_url = rendered_url
             /\ retries_left = start_retries - 1
             /\ ~answered
    /\ (pc \in {"inner", "new_page", "goto"} /\ outcome = "retry_next")
          => (current_url = rendered_url /\ ~answered)

C7_Witness ==
    pc = "goto" /\ outcome = "retry_next" /\ attempts = 2 /\ retries_left = 1

\* C8: an unconfirmed answer with a next URL, with no retry left or at most
\* 8 seconds left, advances: current_url becomes the next URL and the task
\* renders nothing more.
C8_AdvanceAnyway ==
    /\ (pc \in ClosePcs /\ Unconfirmed /\ Truthy(NextUrlOf(resp_json))
            /\ (start_retries = 0 \/ deadline - now <= SAFETY_MARGIN_SECONDS * TicksPerSecond))
          => /\ pc = "close_break"
             /\ outcome = "advance_unconfirmed"
             /\ current_url = NextUrlOf(resp_json)
             /\ retries_left = start_retries
             /\ answered
    /\ (pc \in {"new_page", "goto"} /\ outcome = "advance_unconfirmed")
          => attempts = 1

C8_Witness ==
    /\ pc = "close_break" /\ outcome = "advance_unconfirmed"
    /\ start_retries = 0 /\ deadline - now > SAFETY_MARGIN_SECONDS * TicksPerSecond
    /\ current_url # rendered_url

\* C9: an unconfirmed answer without a next URL is retried on the same URL,
\* one unit consumed, when retries_left > 0 and more than 8 seconds are left;
\* otherwise current_url becomes None and nothing is rendered or submitted
\* afterwards.
C9_NoNextUrl ==
    /\ (pc \in ClosePcs /\ Unconfirmed /\ ~Truthy(NextUrlOf(resp_json)))
          => IF start_retries > 0 /\ deadline - now > SAFETY_MARGIN_SECONDS * TicksPerSecond
             THEN /\ pc = "close_retry"
                  /\ outcome = "retry_nonext"
                  /\ current_url = rendered_url
                  /\ retries_left = start_retries - 1
                  /\ ~answered
             ELSE /\ pc = "close_break"
                  /\ outcome = "end_unconfirmed"
                  /\ current_url = None
                  /\ retries_left = start_retries
    /\ (pc \in {"inner", "new_page", "goto"} /\ outcome = "retry_nonext")
          => current_url = rendered_url
    /\ outcome = "end_unconfirmed" => (current_url = None /\ pc \in ChainOverPcs)

C9_Witness ==
    pc = "finished" /\ outcome = "end_unconfirmed" /\ start_retries = 0
        /\ now < deadline

\* C10: with no submit target, a fallback candidate equal to current_url, or
\* no candidate at all, ends the chain: current_url becomes None and nothing
\* is rendered afterwards.
C10_NoSelfLoop ==
    /\ (pc = "close_break" /\ resp_json = NoResp
            /\ (candidate = None \/ candidate = rendered_url))
          => (current_url = None /\ answered)
    /\ current_url = None => pc \in ChainOverPcs

C10_Witness ==
    pc = "close_break" /\ resp_json = NoResp /\ candidate = rendered_url
        /\ candidate # None /\ current_url = None

\* C11: every run terminates: the solver reaches the end of
\* solve_and_submit_loop (or the early return of the loopback guard).
C11_Terminates == <>(pc \in {"finished", "aborted"})

C11_Witness ==
    pc = "finished" /\ now >= deadline /\ Truthy(current_url)
        /\ outcome = "advance_correct" /\ task_count = MaxTasks

\* the <pre> element of the document holds a dict with an "answer" member
HasStructuredAnswer ==
    /\ doc.pre.enc \in {"json", "base64"}
    /\ doc.pre.val.t = "dict"
    /\ doc.pre.val.answer # Absent

\* positions at which the answer of this attempt has been computed
ExtractedPcs == {"submit", "no_submit", "close_break"}

\* C12: for a document whose structured object has a direct "answer"
\* member, the answer is that member's value, whatever PDF links and
\* numeric tokens the page has.
C12_StructuredAnswerFirst ==
    (pc \in ExtractedPcs /\ submit_body # NoBody /\ HasStructuredAnswer)
        => submit_body.answer = doc.pre.val.answer

C12_Witness ==
    /\ pc = "submit"
    /\ doc = [pre |-> PreJson(JDict(JStr("blue"), PdfData)),
              anchors |-> <<"/q2", "report.pdf", "/SUBMIT">>,
              body |-> <<"The", "17", "items">>]
    /\ submit_body.answer = JStr("blue")

\* C13, states: the solver aborts only before anything was started.
C13_AbortOnlyAtStart ==
    pc = "aborted" => (task_count = 0 /\ rendered_url = None /\ browser = "none")

\* C13, steps: a task on any truthy current_url is started while time is
\* left, whatever its hostname, and its page.goto is called on current_url.
C13_NoGuardPerTask ==
    /\ (pc = "outer" /\ Truthy(current_url) /\ now < deadline) => pc' = "inner"
    /\ pc = "new_page" => pc' \in {"goto", "except"}
    /\ pc = "goto" => (rendered_url' = current_url /\ pc' \in {"extract", "except"})

\* C13: the loopback guard is applied once, to the start URL; a current_url
\* that came from a grader response or the fallback scan is rendered
\* unchecked, also when its host is loopback.
C13_GuardOncePerChain == []C13_AbortOnlyAtStart /\ [][C13_NoGuardPerTask]_vars

C13_Witness ==
    pc = "extract" /\ rendered_url = LoopbackQuiz /\ start_url = Q1
        /\ is_localhost_url(rendered_url)

\* the extraction of this attempt is done and the resolver found no target
ResolverFoundNone == submit_body # NoBody /\ ~Truthy(submit_url)

\* C14 as stated, states: with no submit target nothing is posted and the
\* attempt ends by advancing to a candidate other than current_url or by
\* ending the chain.
C14_StatedState ==
    ResolverFoundNone =>
        /\ resp_json = NoResp
        /\ pc \in {"no_submit", "close_break"}
        /\ retries_left = start_retries
        /\ pc = "close_break" =>
              \/ current_url = None
              \/ current_url = candidate /\ candidate # rendered_url

\* C14 as stated, steps: the attempt does not charge the retry budget.
C14_StatedStep ==
    (ResolverFoundNone /\ pc \in {"no_submit", "except"})
        => retries_left' = retries_left

C14_AmendedState ==
    ResolverFoundNone =>
        /\ resp_json = NoResp
        /\ pc \in {"no_submit", "close_break", "except"}
        /\ retries_left = start_retries
        /\ pc = "close_break" =>
              /\ answered
              /\ \/ current_url = None
                 \/ current_url = candidate /\ candidate # rendered_url
        /\ pc = "except" => (current_url = rendered_url /\ ~answered)

\* C14 amended, steps: the fallback scan does not charge the budget; the
\* except clause charges one unit and the same URL is tried again.
C14_AmendedStep ==
    /\ (ResolverFoundNone /\ pc = "no_submit") => retries_left' = retries_left
    /\ (ResolverFoundNone /\ pc = "except")
          => /\ retries_left' = retries_left - 1
             /\ current_url' = current_url
             /\ pc' = "inner"

C15_FreshSubmission ==
    pc = "submit" =>
        /\ doc # NoDoc
        /\ Truthy(submit_url)
        /\ submit_body # NoBody
        /\ submit_body.url = current_url
        /\ submit_body.url = rendered_url
        /\ resp_json = NoResp

C15_Witness ==
    pc = "submit" /\ attempts = 2 /\ outcome = "retry_next"
        /\ submit_body.url = rendered_url

\* C16: the answer is never null: a non-null scalar or "no-answer-found".
C16_AnswerNeverNull ==
    (pc \in ExtractedPcs /\ submit_body # NoBody)
        => submit_body.answer.ty \in {"int", "float", "str"}

\* C17, states: a crash outside the per-attempt try is being handled, and
\* after the handler no exception is left.
C17_CrashState ==
    /\ pc = "crashed" => exc = "Exception"
    /\ pc \in {"summary", "finished"} => exc = None

\* C17, steps: the crash is logged and the summary follows; from the crash
\* on nothing is rendered or submitted.
C17_CrashStep ==
    /\ pc = "crashed" => (pc' = "summary" /\ exc' = None)
    /\ pc = "summary" => pc' = "finished"
    /\ pc \in {"crashed", "summary", "finished"} =>
          /\ rendered_url' = rendered_url
          /\ resp_json' = resp_json
          /\ task_count' = task_count
          /\ open_pages' = open_pages

\* C17: an exception outside the per-attempt try ends the loop: nothing is
\* rendered or submitted afterwards, the exception is not re-raised, and the
\* summary is still logged.
C17_FatalEndsLoop == []C17_CrashState /\ [][C17_CrashStep]_vars

C17_Witness == pc = "finished" /\ browser = "none" /\ start_url = Q1

\* C18: a task starts at most PER_QUESTION_RETRIES + 1 attempts.
C18_AttemptsPerTask == attempts <= PER_QUESTION_RETRIES + 1

C18_Witness ==
    pc = "goto" /\ attempts = PER_QUESTION_RETRIES + 1 /\ retries_left = 0

\* the reads of the body text that returned a text all returned the same
SameTextOnEveryRead ==
    \A i, j \in DOMAIN body_reads :
        (body_reads[i].ok /\ body_reads[j].ok) => body_reads[i].text = body_reads[j].text

\* C19 as stated: when the body text is the same on every read of an
\* attempt, the no-submit-target branch never advances to a candidate.
C19_FallbackAdvanceUnreachable ==
    (pc = "close_break" /\ resp_json = NoResp /\ SameTextOnEveryRead)
        => (candidate = None /\ current_url = None)

\* C19, amended: when the resolver's read of the body text does not raise
\* and the fallback scan reads the same text, the no-submit-target branch
\* finds no candidate and ends the chain.
C19_StableReadsEndChain ==
    (pc = "close_break" /\ resp_json = NoResp /\ Len(body_reads) = 2
        /\ body_reads[1].ok /\ body_reads[2].ok
        /\ body_reads[1].text = body_reads[2].text)
        => (candidate = None /\ current_url = None /\ outcome = "end_nocandidate")

C19_Witness ==
    /\ pc = "close_break" /\ resp_json = NoResp /\ Len(body_reads) = 2
    /\ body_reads[1].ok /\ body_reads[1].text = <<"The", "17", "items">>
    /\ body_reads[2].text = <<"The", "17", "items">>
    /\ outcome = "end_nocandidate"

\* C20: a grader next URL equal to current_url is followed: the solver
\* advances to it and processes the same URL again as a new task with
\* the full retry budget.
C20_GraderSelfLoopFollowed ==
    /\ (pc = "close_break" /\ resp_json # NoResp /\ NextUrlOf(resp_json) = rendered_url)
          => /\ current_url = rendered_url
             /\ answered
             /\ outcome \in {"advance_correct", "advance_unconfirmed"}
    /\ (pc \in {"new_page", "goto"} /\ current_url = rendered_url
            /\ outcome \in {"advance_correct", "advance_unconfirmed"})
          => (attempts = 1 /\ retries_left = PER_QUESTION_RETRIES)

C20_Witness ==
    pc = "goto" /\ outcome = "advance_unconfirmed" /\ current_url = rendered_url
        /\ task_count = 2 /\ attempts = 1

====
